---- MODULE Spec2Model ----
(***************************************************************************)
(* Model of the grid server of gird-map (server/index.mjs, kept in         *)
(* src/static/app.js lines 248-466): the grid built from the configured    *)
(* bounding box, the streaming CSV ingestion, the past/now/forward         *)
(* partition computed in main(), and the two read routes.                  *)
(*                                                                         *)
(* Numbers.  A JavaScript value is a record [t, n, k].  t = "num" is the   *)
(* finite number n / 2^k (k = 0 for everything read from the input; only   *)
(* the running average of the point schema produces k > 0), "nan" is NaN,  *)
(* "null" is null/undefined.  Observation values are counted in units of   *)
(* 10^-InputDec; coordinates are counted in units of the 1e-12 of          *)
(* buildGrid (Eps), and the arithmetic on them is exact: what is left of   *)
(* an axis after the last whole step is zero, within Eps, or more.         *)
(*                                                                         *)
(* Strings.  A date string is a sequence: <<>> is the empty string,        *)
(* <<d>> the ISO date of day d, <<d, h>> that date followed by a time of   *)
(* day h, and <<0>> a text that Date cannot parse ("#N/A").  The order of  *)
(* the sequences is the order of the strings' UTF-16 code units.  A cell   *)
(* id `r${row}c${col}` is the sequence <<"r", row, "c", col>>.             *)
(***************************************************************************)
EXTENDS Integers, Sequences, FiniteSets, TLC

VARIABLES
    cfg,        \* the environment: LAT_MIN .. DLON (lines 262-275)
    grid,       \* buildGrid()'s result: CELLS and NROWS (line 296)
    csv,        \* the source file guessCsv finds: its path and header, or none
    clock,      \* the current calendar day (UTC) of the host
    pc,         \* "start" | "boot" | "loading" | "loaded" | "serving" | "exited"
    schema,     \* loadCsv's schema: "none" | "cell" | "point" | "unknown"
    gridMap,    \* loadCsv's gridMap: [isNull, per], per: cell id -> (date -> value)
    dateSet,    \* loadCsv's dateSet
    rowsRead,   \* number of 'data' events delivered so far
    lastRow,    \* the record of the last 'data' event
    loaded,     \* what loadCsv returned: DATES_ISO, GRID_MAP, DATA_NOTE
    part,       \* main's TODAY_ISO, PAST_IDX, NOW_IDX, FWD_IDX
    exitCause,  \* why the process ended: "none" | "TypeError" | "stream:<where>"
    req,        \* the request a route handler has just run for
    resp,       \* the response it built, until it is on the wire
    last,       \* the last feature query a client got answered, and the answer
    page,       \* the Leaflet page: zoom, refreshToken, nowLayer, fetches in flight
    tgm,        \* ThailandGridMap's state: dates, dateIdx, playing, loading, csvErr
    svc         \* a call of scaleVillageCounts: points, target and what it returned

\* what the server process never writes
browser == <<page, tgm, svc>>

outside == <<last, browser>>

vars == <<cfg, grid, csv, clock, pc, schema, gridMap, dateSet, rowsRead, lastRow,
          loaded, part, exitCause, req, resp, outside>>

-----------------------------------------------------------------------------
(* Bounds of the model. *)

\* rows ('data' events) of the source stream
MaxRows == 2
\* last calendar day the host clock reaches
MaxDay == 2
\* decimals of the observation values of the input (one unit = 10^-InputDec)
InputDec == 5

-----------------------------------------------------------------------------
(* JavaScript values. *)

Num(n) == [t |-> "num", n |-> n, k |-> 0]
NaN == [t |-> "nan", n |-> 0, k |-> 0]
Null == [t |-> "null", n |-> 0, k |-> 0]

\* a field of a parsed CSV record, or a query parameter: absent, the empty
\* string, a text that is no number, or the decimal text of the number n
Absent == [t |-> "undefined", n |-> 0, k |-> 0]
EmptyStr == [t |-> "empty", n |-> 0, k |-> 0]
Text == [t |-> "text", n |-> 0, k |-> 0]
NumStr(n) == [t |-> "numstr", n |-> n, k |-> 0]

IsFinite(x) == x.t = "num"

\* Number(x): undefined and non-numeric text give NaN, "" gives 0
ToNumber(x) ==
    IF x.t = "numstr" THEN Num(x.n)
    ELSE IF x.t = "empty" THEN Num(0)
    ELSE IF x.t = "num" THEN x
    ELSE IF x.t = "null" THEN Num(0)
    ELSE NaN

\* parseInt(x, 10) of a query parameter
ParseInt(x) == IF x.t = "numstr" THEN Num(x.n) ELSE NaN

\* a ?? b
Coalesce(a, b) == IF a.t \in {"undefined", "null"} THEN b ELSE a

Pow2(k) == 2 ^ k

RECURSIVE Normalize(_, _)
Normalize(n, k) ==
    IF k > 0 /\ n % 2 = 0 THEN Normalize(n \div 2, k - 1)
    ELSE [t |-> "num", n |-> n, k |-> k]

\* x + y, x - y, (x + y) / 2 on finite numbers, exactly
Add(x, y) ==
    LET k == IF x.k > y.k THEN x.k ELSE y.k
    IN  Normalize(x.n * Pow2(k - x.k) + y.n * Pow2(k - y.k), k)
Sub(x, y) == Add(x, [y EXCEPT !.n = 0 - y.n])
Half(x) == Normalize(x.n, x.k + 1)

\* x > y, x < y, x === y of JavaScript: false as soon as one side is NaN
Gt(x, y) ==
    /\ x.t = "num" /\ y.t = "num"
    /\ x.n * Pow2(y.k) > y.n * Pow2(x.k)
Lt(x, y) == Gt(y, x)
StrictEq(x, y) == x.t = "num" /\ y.t = "num" /\ ~Gt(x, y) /\ ~Gt(y, x)

-----------------------------------------------------------------------------
(* Strings: dates and cell ids. *)

Min(a, b) == IF a < b THEN a ELSE b
Max(a, b) == IF a > b THEN a ELSE b

\* s < t in the order of Array.prototype.sort() without a comparator
RECURSIVE StrLess(_, _)
StrLess(s, t) ==
    IF t = <<>> THEN FALSE
    ELSE IF s = <<>> THEN TRUE
    ELSE IF s[1] # t[1] THEN s[1] < t[1]
    ELSE StrLess(Tail(s), Tail(t))

\* Array.from(set).sort()
RECURSIVE SortStrings(_)
SortStrings(S) ==
    IF S = {} THEN <<>>
    ELSE LET m == CHOOSE x \in S : \A y \in S \ {x} : StrLess(x, y)
         IN  <<m>> \o SortStrings(S \ {m})

\* `r${row}c${col}`
CellId(row, col) == <<"r", row, "c", col>>

\* the ISO date of a calendar day, the same day with a time of day and no
\* offset ("2024-01-02T10:00"), and a text no Date can be made of
IsoDate(day) == <<day>>
IsoDateTime(day) == <<day, 1>>
NoDateText == <<0>>

-----------------------------------------------------------------------------
(* The grid (lines 270-296). *)

LAT_MIN == cfg.LAT_MIN
LAT_MAX == cfg.LAT_MAX
LON_MIN == cfg.LON_MIN
LON_MAX == cfg.LON_MAX
DLAT == cfg.DLAT
DLON == cfg.DLON

\* the 1e-12 of the two loop conditions (lines 280 and 282)
Eps == 1

\* faulty variant: the column loop runs while lon <= LON_MAX
RECURSIVE GridColsInclusive(_, _, _, _, _)
GridColsInclusive(c, row, lat, lon, col) ==
    IF lon <= c.LON_MAX
    THEN LET lat_max == Min(lat + c.DLAT, c.LAT_MAX)
             lon_max == Min(lon + c.DLON, c.LON_MAX)
         IN  << [id |-> CellId(row, col), row |-> row, col |-> col,
                 lat_min |-> lat, lat_max |-> lat_max,
                 lon_min |-> lon, lon_max |-> lon_max,
                 lat_c |-> Half(Num(lat + lat_max)),
                 lon_c |-> Half(Num(lon + lon_max))] >>
             \o GridColsInclusive(c, row, lat, lon + c.DLON, col + 1)
    ELSE <<>>

\* the inner loop of buildGrid: the cells of one row, from longitude lon on
RECURSIVE GridCols(_, _, _, _, _)
GridCols(c, row, lat, lon, col) ==
    IF lon < c.LON_MAX - Eps
    THEN LET lat_max == Min(lat + c.DLAT, c.LAT_MAX)
             lon_max == Min(lon + c.DLON, c.LON_MAX)
         IN  << [id |-> CellId(row, col), row |-> row, col |-> col,
                 lat_min |-> lat, lat_max |-> lat_max,
                 lon_min |-> lon, lon_max |-> lon_max,
                 lat_c |-> Half(Num(lat + lat_max)),
                 lon_c |-> Half(Num(lon + lon_max))] >>
             \o GridCols(c, row, lat, lon + c.DLON, col + 1)
    ELSE <<>>

\* faulty variant: the row counter advances by two
RECURSIVE GridRowsSkipping(_, _, _)
GridRowsSkipping(c, lat, row) ==
    IF lat < c.LAT_MAX - Eps
    THEN LET rest == GridRowsSkipping(c, lat + c.DLAT, row + 2)
         IN  [cells |-> GridCols(c, row, lat, c.LON_MIN, 0) \o rest.cells,
              nrows |-> rest.nrows]
    ELSE [cells |-> <<>>, nrows |-> row]

\* the outer loop of buildGrid, from latitude lat on
RECURSIVE GridRows(_, _, _)
GridRows(c, lat, row) ==
    IF lat < c.LAT_MAX - Eps
    THEN LET rest == GridRows(c, lat + c.DLAT, row + 1)
         IN  [cells |-> GridCols(c, row, lat, c.LON_MIN, 0) \o rest.cells,
              nrows |-> rest.nrows]
    ELSE [cells |-> <<>>, nrows |-> row]

buildGrid(c) == GridRows(c, c.LAT_MIN, 0)

CELLS == grid.cells
NROWS == grid.nrows
CellIds == {CELLS[i].id : i \in 1..Len(CELLS)}

\* faulty variant: without the test of the box, a point outside is put in
\* the cell its clamped row and its column name
binPointToCellNoBoxTest(lat, lon) ==
    LET r == Max(0, Min(NROWS - 1, (lat.n - LAT_MIN) \div DLAT))
        c == (lon.n - LON_MIN) \div DLON
    IN  CellId(r, c)

\* binPointToCell(lat, lon) on finite numbers; <<>> stands for null
binPointToCell(lat, lon) ==
    IF ~(LAT_MIN <= lat.n /\ lat.n <= LAT_MAX /\ LON_MIN <= lon.n /\ lon.n <= LON_MAX)
    THEN <<>>
    ELSE LET r == Max(0, Min(NROWS - 1, (lat.n - LAT_MIN) \div DLAT))
             c == (lon.n - LON_MIN) \div DLON
         IN  CellId(r, c)

-----------------------------------------------------------------------------
(* The source stream: what guessCsv finds and the records csv-parse emits. *)

CsvPath == <<"server", "data", "malaria_th_daily.csv">>
basename(p) == p[Len(p)]

Headers ==
    { {"cell_id", "date", "value"},
      {"lat", "lon", "date", "value"},
      {"Cell_ID", "date", "VALUE"},
      {"date", "count"} }

NoCsv == [found |-> FALSE, path |-> <<>>, header |-> {}]

\* the field values of the input
DateInputs == {<<>>, NoDateText, IsoDate(1), IsoDate(2)}
ValueInputs == {Text, NumStr(3), NumStr(16)}
CellIdInputs == {CellId(0, 0), CellId(NROWS - 1, 1), CellId(NROWS, 0)}
LatInputs == {Text, NumStr(LAT_MIN - 1), NumStr(LAT_MAX)}
LonInputs == {NumStr(LON_MIN), NumStr(LON_MAX)}

\* the records of a stream with the given header (columns: true)
CsvRows(header) ==
    IF header = {"cell_id", "date", "value"}
    THEN [cell_id : CellIdInputs, date : DateInputs, value : ValueInputs]
    ELSE IF header = {"lat", "lon", "date", "value"}
    THEN [lat : LatInputs, lon : LonInputs, date : DateInputs, value : ValueInputs]
    ELSE IF header = {"Cell_ID", "date", "VALUE"}
    THEN [Cell_ID : {CellId(0, 0)}, date : DateInputs, VALUE : {NumStr(3)}]
    ELSE [date : DateInputs, count : {NumStr(3)}]

\* row.key of a record field that holds a number text, undefined when absent
Field(row, key) == IF key \in DOMAIN row THEN row[key] ELSE Absent
\* (row.key || '').trim() of a record field that holds a string
StrField(row, key) == IF key \in DOMAIN row THEN row[key] ELSE <<>>

\* h.toLowerCase() of a header key
toLowerCase(h) ==
    CASE h = "Cell_ID" -> "cell_id"
      [] h = "VALUE" -> "value"
      [] h = "Lat" -> "lat"
      [] h = "Lon" -> "lon"
      [] OTHER -> h

-----------------------------------------------------------------------------
(* loadCsv (lines 328-371). *)

\* faulty variant: the keys are compared as they are written
DetectSchemaCaseSensitive(row) ==
    LET has(h) == h \in DOMAIN row
    IN  IF has("cell_id") /\ has("value") THEN "cell"
        ELSE IF (has("lat") \/ has("lat_c")) /\ (has("lon") \/ has("lon_c")) /\ has("value")
        THEN "point"
        ELSE "unknown"

\* faulty variant: a record without the known columns is taken for the cell
\* schema
DetectSchemaDefaultsToCell(row) ==
    LET headers == {toLowerCase(h) : h \in DOMAIN row}
        has(h) == h \in headers
    IN  IF (has("lat") \/ has("lat_c")) /\ (has("lon") \/ has("lon_c")) /\ has("value")
        THEN "point"
        ELSE "cell"

\* lines 341-345: the schema read off the keys of a record
DetectSchema(row) ==
    LET headers == {toLowerCase(h) : h \in DOMAIN row}
        has(h) == h \in headers
    IN  IF has("cell_id") /\ has("value") THEN "cell"
        ELSE IF (has("lat") \/ has("lat_c")) /\ (has("lon") \/ has("lon_c")) /\ has("value")
        THEN "point"
        ELSE "unknown"

\* faulty variant: set leaves a key that is present as it is
MapSetKeepsFirst(per, d, v) ==
    [x \in DOMAIN per \cup {d} |-> IF x \in DOMAIN per THEN per[x] ELSE v]

\* Map.prototype.get / has / set on a per-date map
MapHas(per, d) == d \in DOMAIN per
MapGet(per, d) == IF d \in DOMAIN per THEN per[d] ELSE Absent
MapSet(per, d, v) == [x \in DOMAIN per \cup {d} |-> IF x = d THEN v ELSE per[x]]

\* faulty variant: the observations of a cell and date are summed
MergePointSum(per, d, v) == IF MapHas(per, d) THEN Add(MapGet(per, d), v) ELSE v

\* line 362: the value a point observation leaves in its cell
MergePoint(per, d, v) == IF MapHas(per, d) THEN Half(Add(MapGet(per, d), v)) ELSE v

\* The 'data' listener (lines 339-364) on one record, from the schema, cell
\* store and date set before it: what it leaves, and `outcome`, the return or
\* throw that ended it, and `held`, whether the (cell, date) it wrote held a
\* value before.
OnData(sch0, per0, dates0, row) ==
    LET sch == IF sch0 = "none" THEN DetectSchema(row) ELSE sch0
        d == StrField(row, "date")
        v == ToNumber(Field(row, "value"))
        cidC == StrField(row, "cell_id")
        lat == ToNumber(Coalesce(Field(row, "lat"), Field(row, "lat_c")))
        lon == ToNumber(Coalesce(Field(row, "lon"), Field(row, "lon_c")))
        cidP == binPointToCell(lat, lon)
        same == [schema |-> sch, per |-> per0, dateSet |-> dates0, outcome |-> "?",
                 held |-> FALSE]
        dated == [same EXCEPT !.dateSet = dates0 \cup {d}]
    IN  IF sch = "unknown" THEN [same EXCEPT !.outcome = "unknown-schema"]
        ELSE IF d = <<>> THEN [same EXCEPT !.outcome = "no-date"]
        ELSE IF ~IsFinite(v) THEN [dated EXCEPT !.outcome = "bad-value"]
        ELSE IF sch = "cell"
        THEN IF cidC \in DOMAIN per0
             THEN [dated EXCEPT !.outcome = "stored", !.held = MapHas(per0[cidC], d),
                                !.per = [per0 EXCEPT ![cidC] = MapSet(@, d, v)]]
             ELSE [dated EXCEPT !.outcome = "no-cell"]
        ELSE IF ~IsFinite(lat) \/ ~IsFinite(lon) THEN [dated EXCEPT !.outcome = "bad-coord"]
        ELSE IF cidP = <<>> THEN [dated EXCEPT !.outcome = "out-of-box"]
        ELSE IF cidP \notin DOMAIN per0
        \* gridMap.get(cid) is undefined: per.has(d) throws a TypeError
        THEN [dated EXCEPT !.outcome = "threw"]
        ELSE [dated EXCEPT !.outcome = "stored", !.held = MapHas(per0[cidP], d),
                           !.per = [per0 EXCEPT ![cidP] = MapSet(@, d, MergePoint(@, d, v))]]

\* line 370: the note of a load that reached the end of the stream
LoadedNote(path) == <<"loaded: ", basename(path)>>
\* line 330
SyntheticNote == <<"synthetic (no CSV found)">>

NoRow == [seen |-> FALSE, row |-> <<>>, outcome |-> "none", held |-> FALSE]
NotLoaded == [datesISO |-> <<>>, gridMap |-> [isNull |-> TRUE, per |-> <<>>],
              dataNote |-> <<>>, csvPath |-> <<>>]
NoPart == [today |-> <<>>, past |-> <<>>, now |-> <<>>, fwd |-> <<>>]
NoReq == [route |-> "none", kind |-> "", stride |-> Absent, min |-> Absent, day |-> 0,
          idx |-> <<>>]
\* args: the metric, stride and minValue the handler passed to buildFeatures
NoArgs == [metric |-> "", stride |-> Null, min |-> Null]
NoResp == [status |-> 0, idx |-> <<>>, args |-> NoArgs, features |-> <<>>, meta |-> <<>>]
NoLast == [req |-> NoReq, status |-> 0, features |-> <<>>]

\* the three overlays the page loads on demand (lines 176, 202)
Overlays == {"past", "forecast", "delta"}

\* a page that is not open: no map, no layer, no fetch
NoLayer == [by |-> 0, params |-> [stride |-> 0, min |-> 0]]
NoPage == [zoom |-> 0, refreshToken |-> 0, nowLayer |-> NoLayer, loads |-> {},
           rejected |-> FALSE, shown |-> {}, loaded |-> {}, fetches |-> {},
           got |-> [l \in Overlays |-> 0], adds |-> 0]
\* a ThailandGridMap that is not mounted, a scaleVillageCounts that is not called
NoTgm == [dates |-> <<>>, dateIdx |-> 0, playing |-> FALSE, fps |-> 2,
          loading |-> FALSE, csvErr |-> FALSE, mounted |-> FALSE]
NoSvc == [points |-> <<>>, target |-> 0, called |-> FALSE, scaled |-> <<>>, total |-> 0]

BrowserIdle ==
    /\ page = NoPage
    /\ tgm = NoTgm
    /\ svc = NoSvc

-----------------------------------------------------------------------------
(* The partition of main (lines 415-419). *)

\* toD(s): the local midnight of new Date(s), as the number of the local day;
\* NaN for an Invalid Date.  A date-only ISO string is read as midnight UTC,
\* which on a host west of Greenwich is an evening of the day before; a string
\* with a time of day and no offset is read as local time.
toD(s) ==
    IF s = <<>> \/ s[1] = 0 THEN NaN
    ELSE IF Len(s) = 1 /\ cfg.TZ = "west" THEN Num(s[1] - 1)
    ELSE Num(s[1])

\* new Date().toISOString().slice(0, 10)
TodayIso == IsoDate(clock)

\* DATES_ISO.map((d,i)=>({d,i})): the indices 0..len-1, each filtered on its date
Indices(dates) == [i \in 1..Len(dates) |-> i - 1]

PastIdx(dates, today) ==
    SelectSeq(Indices(dates), LAMBDA i : Lt(toD(dates[i + 1]), toD(today)))
NowIdx(dates, today) ==
    SelectSeq(Indices(dates), LAMBDA i : StrictEq(toD(dates[i + 1]), toD(today)))
FwdIdx(dates, today) ==
    SelectSeq(Indices(dates), LAMBDA i : Gt(toD(dates[i + 1]), toD(today)))

Partition(dates, today) ==
    [today |-> today, past |-> PastIdx(dates, today),
     now |-> NowIdx(dates, today), fwd |-> FwdIdx(dates, today)]

-----------------------------------------------------------------------------
(* buildFeatures (lines 383-407). *)

\* the digits toFixed(4) keeps (line 401)
ValueDec == 4

\* faulty variant: the digits past the last one kept are cut off
ToFixedTruncates(x, digits, unitDec) ==
    LET step == 10 ^ (unitDec - digits)
        a == IF x.n < 0 THEN 0 - x.n ELSE x.n
        q == a \div (Pow2(x.k) * step)
    IN  Num(IF x.n < 0 THEN 0 - q * step ELSE q * step)

\* Number(x.toFixed(digits)) of a finite x counted in units of 10^-unitDec:
\* the nearest multiple of 10^-digits, a tie going away from zero
ToFixed(x, digits, unitDec) ==
    LET step == 10 ^ (unitDec - digits)
        a == IF x.n < 0 THEN 0 - x.n ELSE x.n
        den == Pow2(x.k) * step
        q == (2 * a + den) \div (2 * den)
    IN  Num(IF x.n < 0 THEN 0 - q * step ELSE q * step)

\* faulty variant: the stride test with && for ||
StrideSkipsBoth(c, stride) ==
    Gt(stride, Num(1)) /\ (c.row % stride.n # 0 /\ c.col % stride.n # 0)

\* line 388: the cell is passed over by the stride
StrideSkips(c, stride) ==
    Gt(stride, Num(1)) /\ (c.row % stride.n # 0 \/ c.col % stride.n # 0)

\* line 390: Number(per.get(d) ?? 0)
ValueOn(per, d) == ToNumber(Coalesce(MapGet(per, d), Num(0)))

\* faulty variant: ti > 1 for ti > 0
PrevValueOffByOne(DATES_ISO, per, ti) ==
    IF ti > 1 THEN ValueOn(per, DATES_ISO[ti]) ELSE Num(0)

\* line 391: vPrev, the value on the date before index ti of DATES_ISO
PrevValue(DATES_ISO, per, ti) ==
    IF ti > 0 THEN ValueOn(per, DATES_ISO[ti]) ELSE Num(0)

\* faulty variant: !(val >= minValue) for !(val > minValue)
BelowMinNonStrict(val, metric, minValue) ==
    minValue.t # "null" /\ metric = "value" /\ ~(Gt(val, minValue) \/ StrictEq(val, minValue))

\* line 393: the feature is dropped by the threshold
BelowMin(val, metric, minValue) ==
    minValue.t # "null" /\ metric = "value" /\ ~Gt(val, minValue)

\* the body of the inner loop for date index ti and cell c: the feature
\* pushed, or nothing after a `continue`
CellFeature(DATES_ISO, per, ti, c, metric, stride, minValue) ==
    IF StrideSkips(c, stride) THEN <<>>
    ELSE LET d_iso == DATES_ISO[ti + 1]
             v0 == ValueOn(per[c.id], d_iso)
             vPrev == PrevValue(DATES_ISO, per[c.id], ti)
             val == IF metric = "delta" THEN Sub(v0, vPrev) ELSE v0
         IN  IF BelowMin(val, metric, minValue) THEN <<>>
             ELSE << [time |-> d_iso, cell_id |-> c.id, row |-> c.row, col |-> c.col,
                      value |-> ToFixed(val, ValueDec, InputDec)] >>

\* the inner loop: the features of date index ti, from cell number j on
RECURSIVE DateFeatures(_, _, _, _, _, _, _)
DateFeatures(DATES_ISO, per, ti, j, metric, stride, minValue) ==
    IF j > Len(CELLS) THEN <<>>
    ELSE CellFeature(DATES_ISO, per, ti, CELLS[j], metric, stride, minValue)
         \o DateFeatures(DATES_ISO, per, ti, j + 1, metric, stride, minValue)

\* the outer loop over idx
RECURSIVE AllFeatures(_, _, _, _, _, _)
AllFeatures(DATES_ISO, per, idx, metric, stride, minValue) ==
    IF idx = <<>> THEN <<>>
    ELSE DateFeatures(DATES_ISO, per, Head(idx), 1, metric, stride, minValue)
         \o AllFeatures(DATES_ISO, per, Tail(idx), metric, stride, minValue)

\* faulty variant: GRID_MAP is dereferenced before the loops
buildFeaturesEagerMap(DATES_ISO, GRID_MAP, idx, metric, stride, minValue) ==
    IF GRID_MAP.isNull
    THEN [threw |-> TRUE, features |-> <<>>]
    ELSE [threw |-> FALSE,
          features |-> AllFeatures(DATES_ISO, GRID_MAP.per, idx, metric, stride, minValue)]

\* buildFeatures: GRID_MAP.get on a null GRID_MAP throws as soon as the loops
\* reach a cell
buildFeatures(DATES_ISO, GRID_MAP, idx, metric, stride, minValue) ==
    IF GRID_MAP.isNull /\ idx # <<>> /\ CELLS # <<>>
    THEN [threw |-> TRUE, features |-> <<>>]
    ELSE [threw |-> FALSE,
          features |-> AllFeatures(DATES_ISO, GRID_MAP.per, idx, metric, stride, minValue)]

-----------------------------------------------------------------------------
(* The process: module load, main (lines 410-466) and the two routes. *)

\* the environments of the model: a grid of 2 rows and 3 columns whose last row
\* is clipped and whose longitude span is a whole number of steps, on a host
\* east of Greenwich (or on it), and a grid of 2 rows and 2 columns whose last
\* column is clipped and whose latitude span is a whole number of steps, on a
\* host west of Greenwich
Configs ==
    { [LAT_MIN |-> 2, LAT_MAX |-> 8, LON_MIN |-> 4, LON_MAX |-> 16, DLAT |-> 4, DLON |-> 4,
       TZ |-> "east"],
      [LAT_MIN |-> 0, LAT_MAX |-> 8, LON_MIN |-> 0, LON_MAX |-> 6, DLAT |-> 4, DLON |-> 4,
       TZ |-> "west"] }

\* the requests of the model
Kinds == {"past", "now", "forecast", "delta", "tomorrow"}
StrideInputs == {Absent, NumStr(0), NumStr(2), Text}
MinInputs == {Absent, NumStr(3)}

Init ==
    /\ cfg \in Configs
    /\ grid = buildGrid(cfg)
    /\ csv \in {NoCsv} \cup {[found |-> TRUE, path |-> CsvPath, header |-> h] : h \in Headers}
    /\ clock = 1
    /\ pc = "boot"
    /\ schema = "none"
    /\ gridMap = [isNull |-> TRUE, per |-> <<>>]
    /\ dateSet = {}
    /\ rowsRead = 0
    /\ lastRow = NoRow
    /\ loaded = NotLoaded
    /\ part = NoPart
    /\ exitCause = "none"
    /\ req = NoReq
    /\ resp = NoResp
    /\ last = NoLast
    /\ BrowserIdle

\* main up to the first await inside loadCsv (lines 411-413, 329-338)
Boot ==
    /\ pc = "boot"
    /\ IF csv.found
       THEN /\ gridMap' = [isNull |-> FALSE, per |-> [id \in CellIds |-> <<>>]]
            /\ pc' = "loading"
            /\ loaded' = loaded
       ELSE /\ gridMap' = gridMap
            /\ pc' = "loaded"
            /\ loaded' = [datesISO |-> <<>>, gridMap |-> [isNull |-> TRUE, per |-> <<>>],
                          dataNote |-> SyntheticNote, csvPath |-> <<>>]
    /\ UNCHANGED outside
    /\ UNCHANGED <<cfg, grid, csv, clock, schema, dateSet, rowsRead, lastRow, part,
                   exitCause, req, resp>>

\* one 'data' event (lines 339-364).  An exception thrown by the listener is
\* caught by nothing: the process ends.
DataOf(row) ==
    /\ pc = "loading"
    /\ rowsRead < MaxRows
    /\ LET r == OnData(schema, gridMap.per, dateSet, row)
       IN  /\ schema' = r.schema
           /\ gridMap' = [gridMap EXCEPT !.per = r.per]
           /\ dateSet' = r.dateSet
           /\ lastRow' = [seen |-> TRUE, row |-> row, outcome |-> r.outcome,
                           held |-> r.held]
           /\ pc' = IF r.outcome = "threw" THEN "exited" ELSE "loading"
           /\ exitCause' = IF r.outcome = "threw" THEN "TypeError" ELSE exitCause
    /\ rowsRead' = rowsRead + 1
    /\ UNCHANGED outside
    /\ UNCHANGED <<cfg, grid, csv, clock, loaded, part, req, resp>>

Data == \E row \in CsvRows(csv.header) : DataOf(row)

\* the 'end' event and the rest of loadCsv (lines 365, 369-370)
End ==
    /\ pc = "loading"
    /\ loaded' = [datesISO |-> SortStrings(dateSet), gridMap |-> gridMap,
                  dataNote |-> LoadedNote(csv.path), csvPath |-> csv.path]
    /\ pc' = "loaded"
    /\ lastRow' = NoRow
    /\ UNCHANGED outside
    /\ UNCHANGED <<cfg, grid, csv, clock, schema, gridMap, dateSet, rowsRead, part,
                   exitCause, req, resp>>

\* where a stream of the pipeline can fail: the file stream and the gunzip
\* stream ("source", no 'error' listener: the error is thrown and uncaught),
\* or the parser (line 366: reject, then lines 463-466)
ErrorOrigins == {"source", "parser"}

\* faulty variant: the 'error' listener resolves instead of rejecting
AfterStreamErrorResolves(origin) == "loaded"

\* the state of the process after an 'error' event of the pipeline
AfterStreamError(origin) == "exited"

StreamError ==
    /\ pc = "loading"
    /\ \E origin \in ErrorOrigins :
        /\ pc' = AfterStreamError(origin)
        /\ exitCause' = origin
    /\ loaded' = IF pc' = "loaded"
                 THEN [datesISO |-> SortStrings(dateSet), gridMap |-> gridMap,
                       dataNote |-> LoadedNote(csv.path), csvPath |-> csv.path]
                 ELSE loaded
    /\ UNCHANGED outside
    /\ UNCHANGED <<cfg, grid, csv, clock, schema, gridMap, dateSet, rowsRead, lastRow,
                   part, req, resp>>

\* main after loadCsv has returned (lines 413-460): the partition, the routes,
\* app.listen
Serve ==
    /\ pc = "loaded"
    /\ part' = Partition(loaded.datesISO, TodayIso)
    /\ pc' = "serving"
    /\ UNCHANGED outside
    /\ UNCHANGED <<cfg, grid, csv, clock, schema, gridMap, dateSet, rowsRead, lastRow,
                   loaded, exitCause, req, resp>>

\* midnight passes on the host.  Before main reads the clock (line 416) the
\* program cannot tell when the day changed, so the days that pass during the
\* load are taken once it has returned.
Tick ==
    /\ pc \in {"loaded", "serving"}
    /\ clock < MaxDay
    /\ clock' = clock + 1
    /\ UNCHANGED outside
    /\ UNCHANGED <<cfg, grid, csv, pc, schema, gridMap, dateSet, rowsRead, lastRow,
                   loaded, part, exitCause, req, resp>>

\* faulty variant: app.listen is called before loadCsv is awaited
ListeningBeforeLoad == pc \in {"loading", "loaded", "serving"}

\* the server takes requests once app.listen has run (line 458); the handlers
\* are synchronous, so they run one after the other
Listening == pc = "serving"

\* GET /api/meta (lines 424-433)
GetMeta ==
    /\ Listening
    /\ req = NoReq
    /\ req' = [NoReq EXCEPT !.route = "meta", !.day = clock]
    /\ resp' = [NoResp EXCEPT !.status = 200,
                  !.meta = [dates |-> loaded.datesISO, data_note |-> loaded.dataNote,
                            csv_file |-> csv.path]]
    /\ UNCHANGED outside
    /\ UNCHANGED <<cfg, grid, csv, clock, pc, schema, gridMap, dateSet, rowsRead,
                   lastRow, loaded, part, exitCause>>

\* Math.max(1, x)
MathMax1(x) == IF x.t = "num" THEN Num(Max(1, x.n)) ELSE NaN

\* faulty variant: forecast answers from the past partition
SelectIdxForecastFromPast(kind) ==
    IF kind = "past" THEN [ok |-> TRUE, idx |-> part.past]
    ELSE IF kind = "now" THEN [ok |-> TRUE, idx |-> part.now]
    ELSE IF kind = "forecast" THEN [ok |-> TRUE, idx |-> part.past]
    ELSE IF kind = "delta"
    THEN [ok |-> TRUE, idx |-> [i \in 1..Len(loaded.datesISO) |-> i - 1]]
    ELSE [ok |-> FALSE, idx |-> <<>>]

\* faulty variant: without the final else a kind that is none of the four
\* keeps idx = []
SelectIdxWithoutElse(kind) ==
    IF kind = "past" THEN [ok |-> TRUE, idx |-> part.past]
    ELSE IF kind = "now" THEN [ok |-> TRUE, idx |-> part.now]
    ELSE IF kind = "forecast" THEN [ok |-> TRUE, idx |-> part.fwd]
    ELSE IF kind = "delta"
    THEN [ok |-> TRUE, idx |-> [i \in 1..Len(loaded.datesISO) |-> i - 1]]
    ELSE [ok |-> TRUE, idx |-> <<>>]

\* faulty variant: the handler empties the index list it has answered from, so
\* the kind answered last finds it empty
SelectIdxConsumed(kind) ==
    IF kind = last.req.kind /\ kind # "delta" /\ kind \in {"past", "now", "forecast"}
    THEN [ok |-> TRUE, idx |-> <<>>]
    ELSE IF kind = "past" THEN [ok |-> TRUE, idx |-> part.past]
    ELSE IF kind = "now" THEN [ok |-> TRUE, idx |-> part.now]
    ELSE IF kind = "forecast" THEN [ok |-> TRUE, idx |-> part.fwd]
    ELSE IF kind = "delta"
    THEN [ok |-> TRUE, idx |-> [i \in 1..Len(loaded.datesISO) |-> i - 1]]
    ELSE [ok |-> FALSE, idx |-> <<>>]

\* lines 440-445: the indices a kind selects, or the 400 branch (ok = FALSE)
SelectIdx(kind) ==
    IF kind = "past" THEN [ok |-> TRUE, idx |-> part.past]
    ELSE IF kind = "now" THEN [ok |-> TRUE, idx |-> part.now]
    ELSE IF kind = "forecast" THEN [ok |-> TRUE, idx |-> part.fwd]
    ELSE IF kind = "delta"
    THEN [ok |-> TRUE, idx |-> [i \in 1..Len(loaded.datesISO) |-> i - 1]]
    ELSE [ok |-> FALSE, idx |-> <<>>]

\* GET /api/geo/:kind (lines 435-449)
GetGeo ==
    /\ Listening
    /\ req = NoReq
    /\ \E kind \in Kinds, strideQ \in StrideInputs, minQ \in MinInputs :
        LET stride == MathMax1(ParseInt(Coalesce(strideQ, NumStr(1))))
            min == IF minQ.t \notin {"undefined", "null"} THEN ToNumber(minQ) ELSE Null
            sel == SelectIdx(kind)
            metric == IF kind = "delta" THEN "delta" ELSE "value"
            args == [metric |-> metric, stride |-> stride, min |-> min]
            fc == buildFeatures(loaded.datesISO, loaded.gridMap, sel.idx, metric, stride, min)
        IN  /\ req' = [route |-> "geo", kind |-> kind, stride |-> strideQ, min |-> minQ,
                       day |-> clock]
            /\ resp' = IF ~sel.ok THEN [NoResp EXCEPT !.status = 400]
                       ELSE IF fc.threw
                       THEN [NoResp EXCEPT !.status = 500, !.idx = sel.idx, !.args = args]
                       ELSE [NoResp EXCEPT !.status = 200, !.idx = sel.idx, !.args = args,
                                           !.features = fc.features]
    /\ UNCHANGED outside
    /\ UNCHANGED <<cfg, grid, csv, clock, pc, schema, gridMap, dateSet, rowsRead,
                   lastRow, loaded, part, exitCause>>

\* res.json / res.status(400).json has written the response
Sent ==
    /\ req # NoReq
    /\ req' = NoReq
    /\ resp' = NoResp
    /\ UNCHANGED outside
    /\ UNCHANGED <<cfg, grid, csv, clock, pc, schema, gridMap, dateSet, rowsRead,
                   lastRow, loaded, part, exitCause>>

Next ==
    \/ Boot
    \/ Data
    \/ End
    \/ StreamError
    \/ Serve
    \/ Tick
    \/ GetMeta
    \/ GetGeo
    \/ Sent

Spec == Init /\ [][Next]_vars

-----------------------------------------------------------------------------
(* buildFeatures as a function: called on the loaded dataset with any         *)
(* ascending choice of date indices, either metric, a stride and a threshold. *)

\* the ascending index lists over n dates
IdxLists(n) ==
    {SelectSeq([i \in 1..n |-> i - 1], LAMBDA i : i \in S) : S \in SUBSET (0..(n - 1))}

GenStrides == {1, 2, 3}
GenMins == {Null, NaN, Num(3)}

Generate ==
    /\ pc = "loaded"
    /\ req = NoReq
    /\ \E idx \in IdxLists(Len(loaded.datesISO)), metric \in {"value", "delta"},
          stride \in GenStrides, minValue \in GenMins :
        LET fc == buildFeatures(loaded.datesISO, loaded.gridMap, idx, metric,
                                Num(stride), minValue)
        IN  /\ req' = [NoReq EXCEPT !.route = "gen", !.kind = metric,
                                     !.stride = Num(stride), !.min = minValue, !.idx = idx]
            /\ resp' = [NoResp EXCEPT !.status = IF fc.threw THEN 500 ELSE 200,
                                      !.idx = idx,
                                      !.args = [metric |-> metric, stride |-> Num(stride),
                                                min |-> minValue],
                                      !.features = fc.features]
    /\ UNCHANGED outside
    /\ UNCHANGED <<cfg, grid, csv, clock, pc, schema, gridMap, dateSet, rowsRead,
                   lastRow, loaded, part, exitCause>>

NextGen ==
    \/ Boot
    \/ Data
    \/ End
    \/ Generate

SpecGen == Init /\ [][NextGen]_vars

-----------------------------------------------------------------------------
(* The routes on a loaded dataset, with a client that keeps the last feature *)
(* answer it received: main is entered with one of a few datasets of the     *)
(* cell schema, and any sequence of requests follows.                        *)

ServeDates == {IsoDate(1), IsoDate(2)}

InitServe ==
    /\ cfg \in Configs
    /\ grid = buildGrid(cfg)
    /\ csv = [found |-> TRUE, path |-> CsvPath, header |-> {"cell_id", "date", "value"}]
    /\ clock = 1
    /\ pc = "loaded"
    /\ schema = "cell"
    /\ dateSet \in SUBSET ServeDates
    /\ gridMap = [isNull |-> FALSE,
                  per |-> [id \in CellIds |->
                              IF id = CellId(0, 0) THEN [d \in dateSet |-> Num(16)]
                              ELSE <<>>]]
    /\ rowsRead = Cardinality(dateSet)
    /\ lastRow = NoRow
    /\ loaded = [datesISO |-> SortStrings(dateSet), gridMap |-> gridMap,
                 dataNote |-> LoadedNote(csv.path), csvPath |-> csv.path]
    /\ part = NoPart
    /\ exitCause = "none"
    /\ req = NoReq
    /\ resp = NoResp
    /\ last = NoLast
    /\ BrowserIdle

\* the response has reached the client, which keeps the answer of a feature
\* query
Received ==
    /\ req # NoReq
    /\ last' = IF req.route = "geo"
               THEN [req |-> req, status |-> resp.status, features |-> resp.features]
               ELSE last
    /\ req' = NoReq
    /\ resp' = NoResp
    /\ UNCHANGED browser
    /\ UNCHANGED <<cfg, grid, csv, clock, pc, schema, gridMap, dateSet, rowsRead,
                   lastRow, loaded, part, exitCause>>

NextServe ==
    \/ Serve
    \/ Tick
    \/ GetMeta
    \/ GetGeo
    \/ Received

SpecServe == InitServe /\ [][NextServe]_vars

-----------------------------------------------------------------------------
(* buildGrid as a function of the environment: the module is loaded with any *)
(* bounding box and steps of the ranges below, the boxes with min >= max and *)
(* those whose span leaves a rest within Eps of a whole step included.       *)

MaxCoord == 7
GridSteps == {2, 3}

GridConfigs ==
    [LAT_MIN : 0..1, LAT_MAX : 0..MaxCoord, LON_MIN : 0..1, LON_MAX : 0..MaxCoord,
     DLAT : GridSteps, DLON : GridSteps, TZ : {"east"}]

NoGrid == [cells |-> <<>>, nrows |-> 0]

InitGrid ==
    /\ cfg \in GridConfigs
    /\ grid = NoGrid
    /\ csv = NoCsv
    /\ clock = 1
    /\ pc = "start"
    /\ schema = "none"
    /\ gridMap = [isNull |-> TRUE, per |-> <<>>]
    /\ dateSet = {}
    /\ rowsRead = 0
    /\ lastRow = NoRow
    /\ loaded = NotLoaded
    /\ part = NoPart
    /\ exitCause = "none"
    /\ req = NoReq
    /\ resp = NoResp
    /\ last = NoLast
    /\ BrowserIdle

\* the module-level code up to line 296: the grid is built
LoadModule ==
    /\ pc = "start"
    /\ grid' = buildGrid(cfg)
    /\ pc' = "boot"
    /\ UNCHANGED outside
    /\ UNCHANGED <<cfg, csv, clock, schema, gridMap, dateSet, rowsRead, lastRow, loaded,
                   part, exitCause, req, resp>>

NextGrid == LoadModule

SpecGrid == InitGrid /\ [][NextGrid]_vars

-----------------------------------------------------------------------------
(* The ingestion of points: a source of the point schema whose points lie    *)
(* anywhere on the integer coordinates of the box, over grids with an exact, *)
(* a clipped or an uncovered last row and column.                            *)

BinSpan == 3

BinConfigs ==
    [LAT_MIN : {0}, LAT_MAX : (MaxCoord - BinSpan)..MaxCoord,
     LON_MIN : {0}, LON_MAX : (MaxCoord - BinSpan)..MaxCoord,
     DLAT : GridSteps, DLON : GridSteps, TZ : {"east"}]

BinRows ==
    [lat : {NumStr(n) : n \in 0..MaxCoord}, lon : {NumStr(n) : n \in 0..MaxCoord},
     date : {IsoDate(1)}, value : {NumStr(3)}]

InitBin ==
    /\ cfg \in {c \in BinConfigs : c.DLAT = c.DLON}
    /\ grid = buildGrid(cfg)
    /\ csv = [found |-> TRUE, path |-> CsvPath, header |-> {"lat", "lon", "date", "value"}]
    /\ clock = 1
    /\ pc = "boot"
    /\ schema = "none"
    /\ gridMap = [isNull |-> TRUE, per |-> <<>>]
    /\ dateSet = {}
    /\ rowsRead = 0
    /\ lastRow = NoRow
    /\ loaded = NotLoaded
    /\ part = NoPart
    /\ exitCause = "none"
    /\ req = NoReq
    /\ resp = NoResp
    /\ last = NoLast
    /\ BrowserIdle

DataPoint == \E row \in BinRows : DataOf(row)

NextBin ==
    \/ Boot
    \/ DataPoint
    \/ End

SpecBin == InitBin /\ [][NextBin]_vars

-----------------------------------------------------------------------------
(* The partition of main as a function of the date index and the day of the  *)
(* boot: main is entered with any date index the ingestion can have left,    *)
(* the dates with or without a time of day.                                  *)

PartDates ==
    {NoDateText} \cup {IsoDate(d) : d \in 1..(MaxDay + 1)}
                 \cup {IsoDateTime(d) : d \in 1..(MaxDay + 1)}

InitPart ==
    /\ cfg \in Configs
    /\ grid = buildGrid(cfg)
    /\ csv = [found |-> TRUE, path |-> CsvPath, header |-> {"cell_id", "date", "value"}]
    /\ clock = 1
    /\ pc = "loaded"
    /\ schema = "cell"
    /\ dateSet \in SUBSET PartDates
    /\ gridMap = [isNull |-> FALSE, per |-> [id \in CellIds |-> <<>>]]
    /\ rowsRead = Cardinality(dateSet)
    /\ lastRow = NoRow
    /\ loaded = [datesISO |-> SortStrings(dateSet), gridMap |-> gridMap,
                 dataNote |-> LoadedNote(csv.path), csvPath |-> csv.path]
    /\ part = NoPart
    /\ exitCause = "none"
    /\ req = NoReq
    /\ resp = NoResp
    /\ last = NoLast
    /\ BrowserIdle

NextPart ==
    \/ Serve
    \/ Tick

SpecPart == InitPart /\ [][NextPart]_vars

-----------------------------------------------------------------------------
(* The claims. *)

InSeq(x, s) == \E j \in 1..Len(s) : s[j] = x
Range(s) == {s[j] : j \in 1..Len(s)}
StrictlyAscending(s) == \A j \in 1..(Len(s) - 1) : StrLess(s[j], s[j + 1])

\* the dates under which some cell holds a value: the dates of the rows that
\* reached the store
StoredDates(G) == UNION {DOMAIN G.per[c] : c \in DOMAIN G.per}

\* in how many of the three index lists of main the index i stands
PartCount(i) ==
    (IF InSeq(i, part.past) THEN 1 ELSE 0) + (IF InSeq(i, part.now) THEN 1 ELSE 0)
    + (IF InSeq(i, part.fwd) THEN 1 ELSE 0)

\* C1: once main has computed them, past, now and forward are pairwise
\* disjoint and cover the date index: every index 0..len-1 is in exactly one
\* of them, whatever non-empty date strings the ingestion accepted.
C1_PartitionIsExact ==
    pc = "serving" => \A i \in 0..(Len(loaded.datesISO) - 1) : PartCount(i) = 1

\* C2: after ingestion the date index is strictly ascending and holds exactly
\* the dates of the accepted rows; a date seen only on dropped rows is not in it.
C2_DateIndexOfAcceptedRows ==
    (pc \in {"loaded", "serving"} /\ csv.found) =>
        /\ StrictlyAscending(loaded.datesISO)
        /\ Range(loaded.datesISO) = StoredDates(loaded.gridMap)

\* the point of a record, as the listener reads it (lines 357-358)
RowLat(row) == ToNumber(Coalesce(Field(row, "lat"), Field(row, "lat_c")))
RowLon(row) == ToNumber(Coalesce(Field(row, "lon"), Field(row, "lon_c")))
InBox(lat, lon) ==
    /\ IsFinite(lat) /\ IsFinite(lon)
    /\ LAT_MIN <= lat.n /\ lat.n <= LAT_MAX /\ LON_MIN <= lon.n /\ lon.n <= LON_MAX
\* the record just handled is a point of the box whose column is no column
\* of the grid
LastRowOffGrid ==
    /\ lastRow.seen /\ schema = "point"
    /\ InBox(RowLat(lastRow.row), RowLon(lastRow.row))
    /\ binPointToCell(RowLat(lastRow.row), RowLon(lastRow.row)) \notin CellIds

\* C3: under the point schema a record whose point is in the box but whose
\* column index names no cell is dropped: the ingestion does not fail on it.
C3_OffGridPointIsDropped == LastRowOffGrid => pc # "exited"

\* C4: a feature query answers from the partition relative to the calendar
\* day of the request: past, now and forecast are the indices before, on and
\* after the day the request is made.
C4_PartitionAtRequestDay ==
    (req.route = "geo" /\ resp.status = 200) =>
        /\ req.kind = "past" => resp.idx = PastIdx(loaded.datesISO, IsoDate(req.day))
        /\ req.kind = "now" => resp.idx = NowIdx(loaded.datesISO, IsoDate(req.day))
        /\ req.kind = "forecast" => resp.idx = FwdIdx(loaded.datesISO, IsoDate(req.day))

\* C5: with a source of unknown schema the data note of the metadata answer
\* differs from the note of a successful load.
C5_UnknownSchemaNoteDiffers ==
    (req.route = "meta" /\ schema = "unknown") =>
        resp.meta.data_note # LoadedNote(csv.path)

\* C6: no metadata or feature request is taken before the ingestion has
\* completed: whenever a handler has run, main is past loadCsv and what is
\* served is the final date index and cell store of the ingestion.
C6_NoRequestBeforeLoaded ==
    req # NoReq =>
        /\ pc = "serving"
        /\ csv.found => /\ loaded.datesISO = SortStrings(dateSet)
                        /\ loaded.gridMap = gridMap

\* a request was answered from a dataset that holds observations
C6_Witness ==
    /\ req.route = "geo" /\ resp.status = 200 /\ resp.features # <<>>
    /\ StoredDates(loaded.gridMap) # {}

\* C7: once a stream of the source pipeline has failed, the process has ended:
\* it never listens and never answers a request.
C7_StreamErrorAbortsBoot ==
    exitCause \in ErrorOrigins => (pc = "exited" /\ req = NoReq /\ part = NoPart)

\* the stream failed after records had been stored: a partial dataset
C7_Witness ==
    /\ exitCause \in ErrorOrigins /\ pc = "exited"
    /\ rowsRead > 0 /\ StoredDates(gridMap) # {}

\* buildFeatures has answered a call with this metric
Generated(metric) == req.route = "gen" /\ req.kind = metric /\ resp.status = 200

\* the index of a date of the date index
IndexOf(d) == CHOOSE i \in 0..(Len(loaded.datesISO) - 1) : loaded.datesISO[i + 1] = d

\* the value the store holds for a cell on the date of index ti, 0 when it
\* holds none and 0 before the first date
Stored(cid, ti) ==
    IF ti < 0 THEN Num(0)
    ELSE LET per == loaded.gridMap.per[cid]
             d == loaded.datesISO[ti + 1]
         IN  IF d \in DOMAIN per THEN per[d] ELSE Num(0)

\* the features emitted for a cell and a date index
Emitted(cid, ti) ==
    {j \in 1..Len(resp.features) :
        /\ resp.features[j].cell_id = cid
        /\ resp.features[j].time = loaded.datesISO[ti + 1]}

Abs(n) == IF n < 0 THEN 0 - n ELSE n

\* r is x rounded to 4 decimals: a multiple of 10^-4 at most half a step from
\* x, the one further from zero when x is half way
RoundedTo4(r, x) ==
    LET step == 10 ^ (InputDec - ValueDec)
    IN  /\ r.t = "num" /\ r.k = 0 /\ r.n % step = 0
        /\ 2 * Abs(r.n * Pow2(x.k) - x.n) <= step * Pow2(x.k)
        /\ 2 * Abs(r.n * Pow2(x.k) - x.n) = step * Pow2(x.k)
              => Abs(r.n) * Pow2(x.k) > Abs(x.n)

\* C8 as stated: for metric = delta the emitted value of (cell, ti) is
\* value(dates[ti]) - value(dates[ti-1]), ti-1 the preceding index of the full
\* date index whatever indices were requested, a missing observation counting
\* as 0, and value(dates[0]) - 0 for ti = 0.
C8_DeltaIsExactDifference ==
    Generated("delta") =>
        \A j \in 1..Len(resp.features) :
            LET f == resp.features[j]
                ti == IndexOf(f.time)
            IN  f.value = Sub(Stored(f.cell_id, ti), Stored(f.cell_id, ti - 1))

\* C8 amended: the emitted value is that difference rounded to 4 decimals.
C8_DeltaIsRoundedDifference ==
    Generated("delta") =>
        \A j \in 1..Len(resp.features) :
            LET f == resp.features[j]
                ti == IndexOf(f.time)
            IN  RoundedTo4(f.value, Sub(Stored(f.cell_id, ti), Stored(f.cell_id, ti - 1)))

\* a delta was emitted for an index whose predecessor was not requested and
\* holds a value, and one for index 0
C8_Witness ==
    /\ Generated("delta")
    /\ \E j \in 1..Len(resp.features) :
        LET f == resp.features[j]
            ti == IndexOf(f.time)
        IN  /\ ti > 0 /\ ~InSeq(ti - 1, req.idx)
            /\ Stored(f.cell_id, ti - 1) # Num(0)
            /\ Stored(f.cell_id, ti) # Num(0)
            /\ f.value # Num(0)

\* the cells a stride k selects
StrideCells(k) ==
    {CELLS[i].id : i \in {i \in 1..Len(CELLS) : CELLS[i].row % k = 0 /\ CELLS[i].col % k = 0}}

\* C9: for a stride k >= 1 and no threshold dropping features, the cells
\* emitted for each requested date are exactly the cells with row % k = 0 and
\* col % k = 0, each once; k = 1 emits every cell.
C9_StrideSelectsExactly ==
    (req.route = "gen" /\ resp.status = 200 /\ (req.min = Null \/ req.kind = "delta")) =>
        /\ \A j \in 1..Len(resp.features) : InSeq(IndexOf(resp.features[j].time), req.idx)
        /\ \A m \in 1..Len(req.idx) : \A i \in 1..Len(CELLS) :
            Cardinality(Emitted(CELLS[i].id, req.idx[m])) =
                IF CELLS[i].id \in StrideCells(req.stride.n) THEN 1 ELSE 0
        /\ req.stride.n = 1 => Len(resp.features) = Len(req.idx) * Len(CELLS)

\* stride 2 kept some cells of a requested date and passed over others
C9_Witness ==
    /\ req.route = "gen" /\ resp.status = 200 /\ req.min = Null
    /\ req.stride.n = 2 /\ req.idx # <<>>
    /\ resp.features # <<>>
    /\ Len(resp.features) < Len(req.idx) * Len(CELLS)

\* v > m for a stored value v and a threshold m
Exceeds(v, m) == m.t = "num" /\ v.n > m.n * Pow2(v.k)

\* C10: for metric = delta no feature is dropped because of minValue; for
\* metric = value a stride-selected (cell, date) with stored value v is
\* present iff minValue is null or v > minValue.
C10_ThresholdOnValueOnly ==
    (req.route = "gen" /\ resp.status = 200) =>
        \A m \in 1..Len(req.idx) : \A cid \in StrideCells(req.stride.n) :
            LET n == Cardinality(Emitted(cid, req.idx[m]))
                v == Stored(cid, req.idx[m])
            IN  IF req.kind = "delta" THEN n = 1
                ELSE (n = 1) <=> (req.min = Null \/ Exceeds(v, req.min))

\* metric = value with a threshold: a cell whose value equals it was dropped
\* and a cell whose value exceeds it was kept
C10_Witness ==
    /\ Generated("value") /\ req.min = Num(3)
    /\ \E m1, m2 \in 1..Len(req.idx) : \E c1, c2 \in StrideCells(req.stride.n) :
        /\ Stored(c1, req.idx[m1]) = Num(3) /\ Emitted(c1, req.idx[m1]) = {}
        /\ Exceeds(Stored(c2, req.idx[m2]), Num(3)) /\ Emitted(c2, req.idx[m2]) # {}

\* C11 as stated: for metric = value the emitted value of (cell, date) is the
\* value the store holds for that cell on that date, and 0 when it holds none.
C11_ValueIsStoredValue ==
    Generated("value") =>
        \A j \in 1..Len(resp.features) :
            LET f == resp.features[j]
            IN  f.value = Stored(f.cell_id, IndexOf(f.time))

\* C11 amended: the emitted value is the stored value rounded to 4 decimals,
\* and 0 when the cell holds no observation for the date.
C11_ValueIsRoundedStoredValue ==
    Generated("value") =>
        \A j \in 1..Len(resp.features) :
            LET f == resp.features[j]
                ti == IndexOf(f.time)
                per == loaded.gridMap.per[f.cell_id]
            IN  /\ RoundedTo4(f.value, Stored(f.cell_id, ti))
                /\ f.time \notin DOMAIN per => f.value = Num(0)

\* one answer holds a cell without an observation for the date, emitted as 0,
\* and a cell whose stored value is emitted other than 0
C11_Witness ==
    /\ Generated("value")
    /\ \E j1, j2 \in 1..Len(resp.features) :
        LET f1 == resp.features[j1]
            f2 == resp.features[j2]
        IN  /\ f1.time \notin DOMAIN loaded.gridMap.per[f1.cell_id]
            /\ f1.value = Num(0)
            /\ f2.time \in DOMAIN loaded.gridMap.per[f2.cell_id]
            /\ f2.value # Num(0)

\* the calendar day a date string names, for a string that names one
HasDay(s) == s # <<>> /\ s[1] > 0
CalendarDay(s) == s[1]

\* the indices of the date index, ascending, whose date names a calendar day
\* before, on or after the day the reference date names
DaysBefore ==
    SelectSeq(Indices(loaded.datesISO),
              LAMBDA i : /\ HasDay(loaded.datesISO[i + 1])
                         /\ CalendarDay(loaded.datesISO[i + 1]) < CalendarDay(part.today))
DaysOn ==
    SelectSeq(Indices(loaded.datesISO),
              LAMBDA i : /\ HasDay(loaded.datesISO[i + 1])
                         /\ CalendarDay(loaded.datesISO[i + 1]) = CalendarDay(part.today))
DaysAfter ==
    SelectSeq(Indices(loaded.datesISO),
              LAMBDA i : /\ HasDay(loaded.datesISO[i + 1])
                         /\ CalendarDay(loaded.datesISO[i + 1]) > CalendarDay(part.today))

\* C12: the partition compares by calendar day only: past holds exactly the
\* indices whose day is strictly before the reference day, now those whose day
\* is the reference day, forward those strictly after, each ascending; the
\* dates of three consecutive days with the second as reference give [0], [1], [2].
C12_PartitionByCalendarDay ==
    pc = "serving" =>
        /\ part.past = DaysBefore
        /\ part.now = DaysOn
        /\ part.fwd = DaysAfter

\* the box of the environment has min < max on both axes, and the grid is built
BoxBuilt == pc = "boot" /\ LAT_MIN < LAT_MAX /\ LON_MIN < LON_MAX

\* the last cell of the sequence, and the cells of the row and column after
\* those of a given cell
LastCell == CELLS[Len(CELLS)]
NextRowOf(i) == {j \in 1..Len(CELLS) : CELLS[j].row = CELLS[i].row + 1}
NextColOf(i) ==
    {j \in 1..Len(CELLS) : CELLS[j].row = CELLS[i].row /\ CELLS[j].col = CELLS[i].col + 1}

\* two cells share more than boundary
Overlap(a, b) ==
    /\ a.lat_min < b.lat_max /\ b.lat_min < a.lat_max
    /\ a.lon_min < b.lon_max /\ b.lon_min < a.lon_max

\* C13: for a box with min < max on both axes the built cells tile the box
\* exactly: each cell's upper bound is min(start + step, axisMax), the first
\* row and column start at the axis minimum, each next row or column starts
\* where the previous one ends, the last row and column end exactly at the
\* axis maximum, and no two cells overlap except on shared boundaries.
C13_CellsTileTheBox ==
    BoxBuilt =>
        /\ CELLS # <<>>
        /\ \A i \in 1..Len(CELLS) :
            LET c == CELLS[i]
            IN  /\ c.lat_max = Min(c.lat_min + DLAT, LAT_MAX)
                /\ c.lon_max = Min(c.lon_min + DLON, LON_MAX)
                /\ c.row = 0 => c.lat_min = LAT_MIN
                /\ c.col = 0 => c.lon_min = LON_MIN
                /\ \A j \in NextRowOf(i) : CELLS[j].lat_min = c.lat_max
                /\ \A j \in NextColOf(i) : CELLS[j].lon_min = c.lon_max
                /\ NextRowOf(i) = {} => c.lat_max = LAT_MAX
                /\ NextColOf(i) = {} => c.lon_max = LON_MAX
                /\ \A j \in 1..Len(CELLS) : j # i => ~Overlap(c, CELLS[j])

\* C14: the cell sequence is in strict row-major order, rows and columns
\* numbered from 0 without gaps, each id is r{row}c{col}, and the ids of a
\* built grid are pairwise distinct.
C14_RowMajorDistinctIds ==
    pc = "boot" =>
        /\ CELLS # <<>> => (CELLS[1].row = 0 /\ CELLS[1].col = 0 /\ NROWS = LastCell.row + 1)
        /\ \A i \in 1..(Len(CELLS) - 1) :
            \/ CELLS[i + 1].row = CELLS[i].row /\ CELLS[i + 1].col = CELLS[i].col + 1
            \/ CELLS[i + 1].row = CELLS[i].row + 1 /\ CELLS[i + 1].col = 0
        /\ \A i \in 1..Len(CELLS) : CELLS[i].id = <<"r", CELLS[i].row, "c", CELLS[i].col>>
        /\ \A i, j \in 1..Len(CELLS) : CELLS[i].id = CELLS[j].id => i = j

\* a grid of three rows and three columns or more was built
C14_Witness ==
    /\ pc = "boot" /\ Len(CELLS) >= 9
    /\ LastCell.row >= 2 /\ LastCell.col >= 2

\* a record of the point schema that passes every test of the listener: a
\* date, a finite value, a point of the box, a cell of the grid
AcceptedPoint(row) ==
    /\ StrField(row, "date") # <<>>
    /\ IsFinite(ToNumber(Field(row, "value")))
    /\ InBox(RowLat(row), RowLon(row))
    /\ binPointToCell(RowLat(row), RowLon(row)) \in CellIds

\* m = (a + b) / 2 on finite numbers
IsMean(m, a, b) ==
    LET K == Max(m.k, Max(a.k, b.k))
    IN  /\ m.t = "num"
        /\ 2 * m.n * Pow2(K - m.k) = a.n * Pow2(K - a.k) + b.n * Pow2(K - b.k)

\* C15: under the point schema an accepted observation on a (cell, date) that
\* already holds a value leaves (old + new) / 2, and on a pair that holds none
\* it leaves the new value; 1.0 then 2.0 on the same cell and date leave 1.5.
C15_PointRunningAverage ==
    [][ (pc = "loading" /\ rowsRead' = rowsRead + 1 /\ schema' = "point"
           /\ AcceptedPoint(lastRow'.row)) =>
          LET row == lastRow'.row
              cid == binPointToCell(RowLat(row), RowLon(row))
              d == StrField(row, "date")
              v == ToNumber(Field(row, "value"))
          IN  /\ pc' = "loading"
              /\ d \in DOMAIN gridMap'.per[cid]
              /\ IF d \in DOMAIN gridMap.per[cid]
                 THEN IsMean(gridMap'.per[cid][d], gridMap.per[cid][d], v)
                 ELSE gridMap'.per[cid][d] = v
              /\ \A c \in CellIds : \A x \in DOMAIN gridMap.per[c] :
                    (c # cid \/ x # d) => gridMap'.per[c][x] = gridMap.per[c][x] ]_vars

\* two observations of 0.00003 and 0.00016 on one cell and date have left
\* their mean 0.000095
C15_Witness ==
    /\ schema = "point" /\ rowsRead = 2 /\ ~gridMap.isNull
    /\ \E c \in DOMAIN gridMap.per : \E d \in DOMAIN gridMap.per[c] :
        gridMap.per[c][d] = [t |-> "num", n |-> 19, k |-> 1]

\* the header of the source has the columns of the cell schema or of the
\* point schema
KnownHeader(h) ==
    LET L == {toLowerCase(x) : x \in h}
    IN  /\ "value" \in L
        /\ \/ "cell_id" \in L
           \/ (L \cap {"lat", "lat_c"} # {} /\ L \cap {"lon", "lon_c"} # {})

RecognisedKinds == {"past", "now", "forecast", "delta"}

\* C16: with a source of unknown schema every row is skipped and the
\* ingestion does not fail on any: the date index is empty, no cell holds a
\* value, and every feature query of a recognised kind is answered with an
\* empty feature collection, without error.
C16_UnknownSchemaLoadsNothing ==
    (csv.found /\ ~KnownHeader(csv.header)) =>
        /\ exitCause # "TypeError"
        /\ rowsRead > 0 => schema = "unknown"
        /\ dateSet = {} /\ StoredDates(gridMap) = {}
        /\ pc \in {"loaded", "serving"} =>
              (loaded.datesISO = <<>> /\ StoredDates(loaded.gridMap) = {})
        /\ (req.route = "geo" /\ req.kind \in RecognisedKinds) =>
              (resp.status = 200 /\ resp.features = <<>>)

\* rows with a date were read from a source of unknown schema, and a delta
\* query was answered
C16_Witness ==
    /\ csv.found /\ ~KnownHeader(csv.header)
    /\ rowsRead = MaxRows /\ pc = "serving"
    /\ req.route = "geo" /\ req.kind = "delta" /\ resp.status = 200

\* C17: when no source is found the boot still succeeds: the grid is built
\* from the configured bounds, the date index is empty, the metadata answer
\* carries the synthetic note and no source file, and every feature query of
\* a recognised kind is answered with an empty feature collection, not an error.
C17_NoSourceBootsEmpty ==
    ~csv.found =>
        /\ pc \in {"boot", "loaded", "serving"}
        /\ CELLS # <<>> /\ CELLS[1].lat_min = LAT_MIN /\ CELLS[1].lon_min = LON_MIN
        /\ pc # "boot" => (loaded.datesISO = <<>> /\ loaded.gridMap.isNull)
        /\ req.route = "meta" =>
              /\ resp.status = 200
              /\ resp.meta.dates = <<>>
              /\ resp.meta.data_note = <<"synthetic (no CSV found)">>
              /\ resp.meta.csv_file = <<>>
        /\ (req.route = "geo" /\ req.kind \in RecognisedKinds) =>
              (resp.status = 200 /\ resp.features = <<>>)

\* without a source the server has answered a delta query
C17_Witness ==
    /\ ~csv.found /\ pc = "serving"
    /\ req.route = "geo" /\ req.kind = "delta" /\ resp.status = 200

\* the index list main holds for a kind: the partition computed at boot for
\* past, now and forecast, every index of the date index for delta
KindIndices(kind) ==
    CASE kind = "past" -> part.past
      [] kind = "now" -> part.now
      [] kind = "forecast" -> part.fwd
      [] kind = "delta" -> [i \in 1..Len(loaded.datesISO) |-> i - 1]

\* C18: a feature query of kind past, now or forecast uses the past, now or
\* forward partition with metric = value; kind delta uses every index of the
\* full date index with metric = delta.
C18_KindSelectsIndicesAndMetric ==
    (req.route = "geo" /\ req.kind \in RecognisedKinds) =>
        /\ resp.status \in {200, 500}
        /\ resp.idx = KindIndices(req.kind)
        /\ resp.args.metric = (IF req.kind = "delta" THEN "delta" ELSE "value")
        /\ resp.status = 200 =>
              \A j \in 1..Len(resp.features) :
                  LET f == resp.features[j]
                      ti == IndexOf(f.time)
                  IN  /\ InSeq(ti, KindIndices(req.kind))
                      /\ RoundedTo4(f.value,
                                    IF req.kind = "delta"
                                    THEN Sub(Stored(f.cell_id, ti), Stored(f.cell_id, ti - 1))
                                    ELSE Stored(f.cell_id, ti))

\* a forecast query was answered with features while the date index also
\* holds the day of the boot
C18_Witness ==
    /\ req.route = "geo" /\ req.kind = "forecast" /\ resp.status = 200
    /\ resp.features # <<>> /\ part.now # <<>> /\ part.fwd # part.now

\* C19: a feature query whose kind is none of past, now, forecast, delta is
\* answered with HTTP 400 and without features, nothing is generated for it,
\* and the service goes on listening with the same dataset: once the answer
\* is sent the handlers take the next request.
C19_BadKindIsClientError ==
    [][ (req.route = "geo" /\ req.kind \notin RecognisedKinds) =>
          /\ resp.status = 400 /\ resp.features = <<>> /\ resp.args = NoArgs
          /\ pc = "serving" /\ pc' = "serving"
          /\ loaded' = loaded /\ part' = part
          /\ req' \in {req, NoReq} ]_vars

\* kind "tomorrow" was answered with 400
C19_Witness ==
    /\ req.route = "geo" /\ req.kind = "tomorrow" /\ resp.status = 400
    /\ loaded.datesISO # <<>>

\* C20: for every feature query the stride passed to feature generation is a
\* positive integer: 1 when the parameter is absent, 1 when the supplied value
\* is below 1, otherwise the supplied integer; and when the min parameter is
\* absent minValue is null, so the threshold drops no feature.
C20_StrideIsPositiveInteger ==
    (req.route = "geo" /\ req.kind \in RecognisedKinds) =>
        /\ resp.args.stride.t = "num" /\ resp.args.stride.k = 0 /\ resp.args.stride.n >= 1
        /\ req.stride = Absent => resp.args.stride = Num(1)
        /\ (req.stride.t = "numstr" /\ req.stride.n < 1) => resp.args.stride = Num(1)
        /\ (req.stride.t = "numstr" /\ req.stride.n >= 1) => resp.args.stride = Num(req.stride.n)
        /\ req.min = Absent => resp.args.min = Null

\* C21: after boot no metadata or feature request, in any number and order,
\* changes the grid, the per-cell value store or the date index, and a feature
\* query equal to the last one answered, made on the same day, gets the same
\* feature collection.
C21_RequestsChangeNothing ==
    [][ pc = "serving" =>
          /\ grid' = grid /\ loaded' = loaded /\ gridMap' = gridMap
          /\ dateSet' = dateSet /\ part' = part /\ pc' = "serving"
          /\ (req = NoReq /\ req'.route = "geo" /\ req' = last.req) =>
                (resp'.status = last.status /\ resp'.features = last.features) ]_vars

\* a feature query that was answered with features is asked again and
\* answered again
C21_Witness ==
    /\ pc = "serving" /\ req.route = "geo" /\ req = last.req
    /\ resp.status = 200 /\ resp.features # <<>>

\* a record that row-level validation rejects under schema sch: no date, a
\* value that is not finite, under the point schema coordinates that are not
\* finite or a point outside the box, under the cell schema a cell id that is
\* none of the grid
Rejected(row, sch) ==
    /\ sch \in {"cell", "point"}
    /\ \/ StrField(row, "date") = <<>>
       \/ ~IsFinite(ToNumber(Field(row, "value")))
       \/ sch = "point" /\ ~InBox(RowLat(row), RowLon(row))
       \/ sch = "cell" /\ StrField(row, "cell_id") \notin CellIds

\* C22: a row rejected by row-level validation leaves the per-date value map
\* of every cell unchanged, and the ingestion goes on with the next rows.
C22_RejectedRowChangesNothing ==
    [][ (pc = "loading" /\ rowsRead' = rowsRead + 1 /\ Rejected(lastRow'.row, schema')) =>
          (gridMap' = gridMap /\ pc' = "loading") ]_vars

\* a point outside the box was rejected while the store holds values
C22_Witness ==
    /\ pc = "loading" /\ lastRow.seen /\ schema = "point"
    /\ StrField(lastRow.row, "date") # <<>>
    /\ IsFinite(ToNumber(Field(lastRow.row, "value")))
    /\ IsFinite(RowLat(lastRow.row))
    /\ ~InBox(RowLat(lastRow.row), RowLon(lastRow.row))
    /\ StoredDates(gridMap) # {}

\* C23: a box that is inverted or degenerate on either axis (latMin >= latMax
\* or lonMin >= lonMax) yields a grid without cells, and building it raises
\* no error.
C23_DegenerateBoxHasNoCells ==
    (pc # "start" /\ (LAT_MIN >= LAT_MAX \/ LON_MIN >= LON_MAX)) =>
        (pc = "boot" /\ CELLS = <<>>)

\* the grid of a box degenerate in longitude only was built: its rows were
\* walked and no cell was made
C23_Witness ==
    /\ pc = "boot" /\ LAT_MIN < LAT_MAX /\ LON_MIN = LON_MAX
    /\ NROWS > 0 /\ CELLS = <<>>

\* the schema of a header, its keys compared without regard to case
SchemaOfHeader(h) ==
    LET L == {toLowerCase(x) : x \in h}
    IN  IF {"cell_id", "value"} \subseteq L THEN "cell"
        ELSE IF L \cap {"lat", "lat_c"} # {} /\ L \cap {"lon", "lon_c"} # {} /\ "value" \in L
        THEN "point"
        ELSE "unknown"

\* C24: the schema is decided once, from the header keys of the first row
\* compared case-insensitively (cell if cell_id and value are present, else
\* point if a lat/lat_c key, a lon/lon_c key and value are present, else
\* unknown), and no later row of the stream changes it: after any number of
\* rows it is the schema of the header.
C24_SchemaDecidedOnce ==
    csv.found =>
        /\ rowsRead = 0 => schema = "none"
        /\ rowsRead > 0 => schema = SchemaOfHeader(csv.header)

\* two rows of a source whose header is written Cell_ID, VALUE were read
\* under the cell schema
C24_Witness ==
    /\ "Cell_ID" \in csv.header /\ schema = "cell" /\ rowsRead = MaxRows

\* the cell of the grid with a given id
CellOf(cid) == CELLS[CHOOSE i \in 1..Len(CELLS) : CELLS[i].id = cid]

\* C25: under the point schema every accepted observation is stored in a cell
\* whose box contains the point (lat_min <= lat <= lat_max and lon_min <= lon
\* <= lon_max), points on the upper latitude bound and points of a clipped
\* last row or column included.
C25_PointLiesInItsCell ==
    (schema = "point" /\ lastRow.seen /\ pc = "loading" /\ AcceptedPoint(lastRow.row)) =>
        LET lat == RowLat(lastRow.row)
            lon == RowLon(lastRow.row)
            cid == binPointToCell(lat, lon)
            c == CellOf(cid)
        IN  /\ StrField(lastRow.row, "date") \in DOMAIN gridMap.per[cid]
            /\ c.lat_min <= lat.n /\ lat.n <= c.lat_max
            /\ c.lon_min <= lon.n /\ lon.n <= c.lon_max

\* a record of the cell schema that passes every test of the listener: a
\* date, a finite value, a cell id of the grid
AcceptedCell(row) ==
    /\ StrField(row, "date") # <<>>
    /\ IsFinite(ToNumber(Field(row, "value")))
    /\ StrField(row, "cell_id") \in CellIds

\* C26: under the cell schema several accepted rows for the same cell id and
\* date are not averaged: the value stored for the pair is the value of the
\* last such row in stream order, whatever the pair held before.
C26_CellLastWriteWins ==
    [][ (pc = "loading" /\ rowsRead' = rowsRead + 1 /\ schema' = "cell"
           /\ AcceptedCell(lastRow'.row)) =>
          LET row == lastRow'.row
              cid == StrField(row, "cell_id")
              d == StrField(row, "date")
          IN  /\ pc' = "loading"
              /\ d \in DOMAIN gridMap'.per[cid]
              /\ gridMap'.per[cid][d] = ToNumber(Field(row, "value"))
              /\ \A c \in CellIds : \A x \in DOMAIN gridMap.per[c] :
                    (c # cid \/ x # d) => gridMap'.per[c][x] = gridMap.per[c][x] ]_vars

\* a second accepted row for a cell and date that already held a value has
\* left its own value
C26_Witness ==
    /\ schema = "cell" /\ lastRow.seen /\ lastRow.held /\ AcceptedCell(lastRow.row)
    /\ Field(lastRow.row, "value") = NumStr(3)
    /\ gridMap.per[StrField(lastRow.row, "cell_id")][StrField(lastRow.row, "date")] = Num(3)
    /\ rowsRead = 2

-----------------------------------------------------------------------------
(* The Leaflet page (src/static/app.js lines 1-247): the Current layer and   *)
(* its reloads.  A fetch is in flight from the call of j() until its promise *)
(* settles; the fetches in flight settle in any order.  A layer is described *)
(* by the zoom event that asked for its data (by; 0 is the first load of     *)
(* line 198) and by the query it was fetched with.                           *)

\* zoom-end events of one page session
MaxZooms == 3

\* one zoom level for each branch of strideForZoom and minForZoom
ZoomLevels == {6, 7, 8}

\* line 67
strideForZoom(z) == IF z <= 6 THEN 4 ELSE IF z <= 7 THEN 2 ELSE 1

\* line 68; 0.02 in units of 10^-InputDec
minForZoom(z) == IF z <= 6 THEN 2000 ELSE 0

\* line 183: the query of loadNowForZoom at zoom z
ParamsOf(z) == [stride |-> strideForZoom(z), min |-> minForZoom(z)]

\* line 190: '/api/geo/now' without a query
NoParams == NoLayer.params

\* the server is not part of the page: its process is aside, not started
ServerAside ==
    /\ cfg = CHOOSE c \in Configs : c.TZ = "east"
    /\ grid = NoGrid
    /\ csv = NoCsv
    /\ clock = 1
    /\ pc = "start"
    /\ schema = "none"
    /\ gridMap = [isNull |-> TRUE, per |-> <<>>]
    /\ dateSet = {}
    /\ rowsRead = 0
    /\ lastRow = NoRow
    /\ loaded = NotLoaded
    /\ part = NoPart
    /\ exitCause = "none"
    /\ req = NoReq
    /\ resp = NoResp
    /\ last = NoLast

server == <<cfg, grid, csv, clock, pc, schema, gridMap, dateSet, rowsRead, lastRow,
            loaded, part, exitCause, req, resp, last>>

\* the page after line 198: the map at its first zoom (line 85), the Current
\* layer loaded once, by the first fetch or by the fetch of the catch branch
InitPage ==
    /\ ServerAside
    /\ \E z \in {6, 8}, fellBack \in BOOLEAN :
         page = [NoPage EXCEPT !.zoom = z,
                               !.nowLayer = [by |-> 0,
                                             params |-> IF fellBack THEN NoParams
                                                        ELSE ParamsOf(z)],
                               !.rejected = fellBack]
    /\ tgm = NoTgm
    /\ svc = NoSvc

\* lines 234-236 and 182-185: a zoom ends at level z; the handler takes its
\* token and loadNowForZoom starts its fetch with the query of that zoom
ZoomEnd ==
    /\ page.zoom # 0
    /\ page.refreshToken < MaxZooms
    /\ \E z \in ZoomLevels \ {page.zoom} :
         page' = [page EXCEPT !.zoom = z,
                              !.refreshToken = @ + 1,
                              !.loads = @ \cup {[my |-> page.refreshToken + 1,
                                                 params |-> ParamsOf(z),
                                                 stage |-> "first"]}]
    /\ UNCHANGED <<server, tgm, svc>>

\* lines 185-188 and 190-193: a fetch of loadNowForZoom is answered; the layer
\* on the map is removed and the layer of this answer is put in its place.
\* lines 237-238: the token is compared after that, and nothing follows it.
NowArrives ==
    /\ \E f \in page.loads :
         page' = [page EXCEPT !.nowLayer = [by |-> f.my, params |-> f.params],
                              !.loads = @ \ {f}]
    /\ UNCHANGED <<server, tgm, svc>>

\* lines 189-190: the first fetch is rejected, the catch branch fetches without
\* a query; when that is rejected too the handler ends with the rejection
NowFails ==
    /\ \E f \in page.loads :
         page' = [page EXCEPT !.rejected = TRUE,
                              !.loads = IF f.stage = "first"
                                        THEN (@ \ {f}) \cup
                                             {[f EXCEPT !.params = NoParams,
                                                        !.stage = "fallback"]}
                                        ELSE @ \ {f}]
    /\ UNCHANGED <<server, tgm, svc>>

NextZoom ==
    \/ ZoomEnd
    \/ NowArrives
    \/ NowFails

SpecZoom == InitPage /\ [][NextZoom]_vars

\* C27 (not the code's behaviour): when every fetch of the Current layer was
\* answered and none is in flight any more, the layer on the map holds the
\* data that the most recent zoom event asked for, in whatever order the
\* answers arrived.
C27_NewestZoomWins ==
    (page.refreshToken > 0 /\ page.loads = {} /\ ~page.rejected)
        => page.nowLayer.params = ParamsOf(page.zoom)

-----------------------------------------------------------------------------
(* The overlays loaded on demand (lines 176-177, 208-231).  The layers       *)
(* control fires overlayadd each time the user ticks an overlay that is not  *)
(* on the map, and the user may untick it at any time.  page.loaded holds    *)
(* the overlays whose flag (pastLoaded, fwdLoaded, deltLoaded) is true,      *)
(* page.got counts the fetches of each overlay that the server answered.     *)

\* overlayadd events of one page session
MaxAdds == 3

\* lines 209-230: overlayadd for overlay l; when its flag is still false the
\* handler starts the fetch and waits for it
OverlayAdd ==
    /\ page.zoom # 0
    /\ page.adds < MaxAdds
    /\ \E l \in Overlays \ page.shown :
         page' = [page EXCEPT !.shown = @ \cup {l},
                              !.adds = @ + 1,
                              !.fetches = IF l \in page.loaded THEN @
                                          ELSE @ \cup {[layer |-> l,
                                                        n |-> page.adds + 1,
                                                        params |-> ParamsOf(page.zoom),
                                                        stage |-> "first"]}]
    /\ UNCHANGED <<server, tgm, svc>>

\* the user unticks an overlay: the control takes it off the map, no handler
OverlayRemove ==
    /\ \E l \in page.shown :
         page' = [page EXCEPT !.shown = @ \ {l}]
    /\ UNCHANGED <<server, tgm, svc>>

\* lines 213-216 (and 219-222, 225-228): the fetch is answered, the data goes
\* into the layer and only now the flag becomes true
OverlayArrives ==
    /\ \E f \in page.fetches :
         page' = [page EXCEPT !.fetches = @ \ {f},
                              !.loaded = @ \cup {f.layer},
                              !.got = [@ EXCEPT ![f.layer] = @ + 1]]
    /\ UNCHANGED <<server, tgm, svc>>

\* line 213: .catch(() => j('/api/geo/past')): a rejected first fetch is
\* followed by the fetch without a query; when that one is rejected the
\* handler ends with the rejection and the flag stays false
OverlayFails ==
    /\ \E f \in page.fetches :
         page' = [page EXCEPT !.rejected = TRUE,
                              !.fetches = IF f.stage = "first"
                                          THEN (@ \ {f}) \cup
                                               {[f EXCEPT !.params = NoParams,
                                                          !.stage = "fallback"]}
                                          ELSE @ \ {f}]
    /\ UNCHANGED <<server, tgm, svc>>

NextOverlay ==
    \/ OverlayAdd
    \/ OverlayRemove
    \/ OverlayArrives
    \/ OverlayFails

SpecOverlay == InitPage /\ [][NextOverlay]_vars

\* C28 (not the code's behaviour): in one page session the server answers at
\* most one fetch of each overlay loaded on demand, for every sequence of
\* overlayadd events, an overlayadd during a fetch of the same overlay
\* included.
C28_OverlayFetchedOnce == \A l \in Overlays : page.got[l] <= 1

-----------------------------------------------------------------------------
(* ThailandGridMap (lines 546-555, 568-580, 696-702, 722-734; the second     *)
(* copy of the component, lines 1224-1240, has the same handlers): the date  *)
(* list, the selected index and the player.                                  *)

\* distinct dates of the CSV the component loads
MaxDates == 3

\* lines 573-574: the dates of the rows, without repetition, sorted
UniqSorted(days) == SortStrings({IsoDate(d) : d \in days})

\* Array.prototype.indexOf: the first 0-based index of x, -1 when there is none
ArrayIndexOf(arr, x) ==
    IF \E i \in 1..Len(arr) : arr[i] = x
    THEN (CHOOSE i \in 1..Len(arr) : arr[i] = x /\ \A k \in 1..(i - 1) : arr[k] # x) - 1
    ELSE -1

\* the % of JavaScript: the sign of the result is the sign of the dividend
JsMod(a, n) == IF a >= 0 THEN a % n ELSE -((-a) % n)

\* lines 546-555 and 571: the component is mounted and the CSV load starts
InitTgm ==
    /\ ServerAside
    /\ page = NoPage
    /\ tgm = [NoTgm EXCEPT !.mounted = TRUE, !.loading = TRUE]
    /\ svc = NoSvc

\* lines 572-577 and 579: the CSV is read; today is the UTC day of the browser
CsvLoaded ==
    /\ tgm.loading
    /\ \E days \in SUBSET (1..MaxDates), today \in 1..(MaxDates + 1) :
         LET uniq == UniqSorted(days)
         IN  tgm' = [tgm EXCEPT !.dates = uniq,
                                !.dateIdx = Max(0, ArrayIndexOf(uniq, IsoDate(today))),
                                !.loading = FALSE]
    /\ UNCHANGED <<server, page, svc>>

\* lines 578-579: loadCsvRows threw
CsvFailed ==
    /\ tgm.loading
    /\ tgm' = [tgm EXCEPT !.csvErr = TRUE, !.loading = FALSE]
    /\ UNCHANGED <<server, page, svc>>

\* line 722: the previous-day button
PrevDay ==
    /\ tgm.mounted
    /\ tgm' = [tgm EXCEPT !.dateIdx = Max(0, @ - 1)]
    /\ UNCHANGED <<server, page, svc>>

\* line 723: the next-day button
NextDay ==
    /\ tgm.mounted
    /\ tgm' = [tgm EXCEPT !.dateIdx = Min(Len(tgm.dates) - 1, @ + 1)]
    /\ UNCHANGED <<server, page, svc>>

\* lines 727-734: the slider gives a value of its range min .. max
Slider ==
    /\ tgm.mounted
    /\ \E v \in 0..Max(0, Len(tgm.dates) - 1) :
         tgm' = [tgm EXCEPT !.dateIdx = v]
    /\ UNCHANGED <<server, page, svc>>

\* line 718: the speed slider, 1 .. 8
SetFps ==
    /\ tgm.mounted
    /\ \E v \in 1..8 : tgm' = [tgm EXCEPT !.fps = v]
    /\ UNCHANGED <<server, page, svc>>

\* line 719: the play/pause button
TogglePlay ==
    /\ tgm.mounted
    /\ tgm' = [tgm EXCEPT !.playing = ~@]
    /\ UNCHANGED <<server, page, svc>>

\* lines 697-700: a tick of the interval the autoplay effect started
AutoplayTick ==
    /\ tgm.playing
    /\ Len(tgm.dates) > 1
    /\ tgm' = [tgm EXCEPT !.dateIdx = JsMod(@ + 1, Len(tgm.dates))]
    /\ UNCHANGED <<server, page, svc>>

NextTgm ==
    \/ CsvLoaded
    \/ CsvFailed
    \/ PrevDay
    \/ NextDay
    \/ Slider
    \/ SetFps
    \/ TogglePlay
    \/ AutoplayTick

SpecTgm == InitTgm /\ [][NextTgm]_vars

\* C29 (not the code's behaviour): after any clicks of the previous-day and
\* next-day buttons, slider changes and autoplay ticks, in every load state,
\* 0 <= dateIdx <= max(0, dates.length - 1).
C29_DateIdxInRange ==
    tgm.mounted => (0 <= tgm.dateIdx /\ tgm.dateIdx <= Max(0, Len(tgm.dates) - 1))

-----------------------------------------------------------------------------
(* scaleVillageCounts (lines 802-825).  A point is [name, count]: count is   *)
(* what p.counts?.[2025] holds, [has |-> FALSE] when there is none.  A name  *)
(* is the index of the first point that carries it.  The scaled value of a   *)
(* point is the fraction v * target / baseSum, kept as its numerator; for    *)
(* the integers of the model the double quotient has the floor of the exact  *)
(* one.  The fractional parts x - floors[i] are doubles: where two exact     *)
(* fractional parts are equal the rounding decides which comes first, so     *)
(* the sort of line 815 may leave them in either order.                      *)

\* points of a call, the largest count of a point, the largest target
MaxPoints == 3
MaxCount == 2
MaxTarget == 4

NoCount == [has |-> FALSE, n |-> 0]
CountInputs == {NoCount} \cup {[has |-> TRUE, n |-> n] : n \in (-1)..MaxCount}

\* the lists of at most MaxPoints points; point i has a name of its own (i)
\* or the name of an earlier point
PointLists ==
    UNION {{ps \in [1..n -> [name : 1..MaxPoints, count : CountInputs]] :
              \A i \in 1..n : ps[i].name <= i /\ ps[ps[i].name].name = ps[i].name}
           : n \in 0..MaxPoints}

\* line 803: p.counts?.[2025] || 0
Count2025(p) == IF p.count.has THEN p.count.n ELSE 0

RECURSIVE SumSeq(_)
SumSeq(s) == IF s = <<>> THEN 0 ELSE s[1] + SumSeq(Tail(s))

\* Math.round of a / b (b > 0): faulty variant of FloorOf
RoundOf(a, b) == (2 * a + b) \div (2 * b)

\* line 811: Math.floor of a / b (b > 0)
FloorOf(a, b) == a \div b

\* line 803
BaseArr(points) == [i \in 1..Len(points) |-> Count2025(points[i])]

\* line 810, as numerators over baseSum
ScaledNum(points, target) == [i \in 1..Len(points) |-> BaseArr(points)[i] * target]

\* line 811
Floors(points, target) ==
    LET baseSum == SumSeq(BaseArr(points))
    IN  [i \in 1..Len(points) |-> FloorOf(BaseArr(points)[i] * target, baseSum)]

\* line 814: frac = x - floors[i], as a numerator over baseSum
FracNum(points, target) ==
    LET baseSum == SumSeq(BaseArr(points))
        scaledNum == ScaledNum(points, target)
        floors == Floors(points, target)
    IN  [i \in 1..Len(points) |-> scaledNum[i] - floors[i] * baseSum]

\* lines 813-815: the orders the sort can give
Orders(points, target) ==
    LET frac == FracNum(points, target)
    IN  {o \in [1..Len(points) -> 1..Len(points)] :
            /\ \A i, k \in 1..Len(points) : i # k => o[i] # o[k]
            /\ \A i, k \in 1..Len(points) : i < k => frac[o[i]] >= frac[o[k]]}

\* lines 812, 816-819: the floors after the remainder was handed out along o
Bumped(points, target, o) ==
    LET floors == Floors(points, target)
        remainder == target - SumSeq(floors)
        first == {o[k] : k \in 1..Min(Len(o), Max(remainder, 0))}
    IN  [i \in 1..Len(points) |-> IF i \in first THEN floors[i] + 1 ELSE floors[i]]

\* lines 806, 822: new Map and m.set(p.name, ...) for each point in order: a
\* name holds what its last point set
MapOfPoints(points, vals) ==
    [nm \in {points[i].name : i \in 1..Len(points)} |->
        vals[CHOOSE i \in 1..Len(points) :
                /\ points[i].name = nm
                /\ \A k \in (i + 1)..Len(points) : points[k].name # nm]]

\* the results scaleVillageCounts(points, target) can return
scaleVillageCounts(points, target) ==
    IF SumSeq(BaseArr(points)) <= 0
    THEN {[scaled |-> MapOfPoints(points, [i \in 1..Len(points) |-> 0]), total |-> 0]}
    ELSE {[scaled |-> MapOfPoints(points, Bumped(points, target, o)), total |-> target]
          : o \in Orders(points, target)}

InitSvc ==
    /\ ServerAside
    /\ page = NoPage
    /\ tgm = NoTgm
    /\ \E ps \in PointLists, t \in 0..MaxTarget :
         svc = [NoSvc EXCEPT !.points = ps, !.target = t]

\* the call and its return
Scale ==
    /\ ~svc.called
    /\ \E out \in scaleVillageCounts(svc.points, svc.target) :
         svc' = [svc EXCEPT !.called = TRUE, !.scaled = out.scaled, !.total = out.total]
    /\ UNCHANGED <<server, page, tgm>>

NextSvc == Scale

SpecSvc == InitSvc /\ [][NextSvc]_vars

RECURSIVE SumOver(_, _)
SumOver(f, S) ==
    IF S = {} THEN 0
    ELSE LET x == CHOOSE x \in S : TRUE IN f[x] + SumOver(f, S \ {x})

DistinctNames(points) ==
    \A i, k \in 1..Len(points) : i # k => points[i].name # points[k].name

\* f is the floor of a / b (b > 0)
IsFloorOf(f, a, b) == f * b <= a /\ a < (f + 1) * b

\* what C30 says of a call that returned
ScaledAsClaimed ==
    LET points == svc.points
        baseSum == SumSeq(BaseArr(points))
    IN  /\ baseSum > 0 =>
              /\ SumOver(svc.scaled, DOMAIN svc.scaled) = svc.target
              /\ svc.total = svc.target
              /\ \A i \in 1..Len(points) :
                   \E d \in {0, 1} :
                     IsFloorOf(svc.scaled[points[i].name] - d,
                               BaseArr(points)[i] * svc.target, baseSum)
        /\ baseSum = 0 =>
              /\ \A nm \in DOMAIN svc.scaled : svc.scaled[nm] = 0
              /\ svc.total = 0

\* C30 as stated (violated): for every list of points and every target >= 0,
\* when the 2025 counts sum to a positive number the counts returned sum to
\* target, total is target and each count is floor(v*target/baseSum) or that
\* floor plus 1; when they sum to 0 every count and total are 0.
C30_ScaledSumsToTarget == svc.called => ScaledAsClaimed

\* C30, amended: the same for the lists of points whose names are pairwise
\* distinct.
C30_DistinctNamesSumToTarget ==
    (svc.called /\ DistinctNames(svc.points)) => ScaledAsClaimed

\* three villages of distinct names, one of a negative count, a remainder of 1:
\* one village got its floor plus 1, the others their floors
C30_Witness ==
    /\ svc.called
    /\ Len(svc.points) = 3
    /\ DistinctNames(svc.points)
    /\ \E i \in 1..3 : Count2025(svc.points[i]) < 0
    /\ SumSeq(BaseArr(svc.points)) > 0
    /\ SumSeq(Floors(svc.points, svc.target)) = svc.target - 1
    /\ \E i \in 1..3 : svc.scaled[svc.points[i].name] = Floors(svc.points, svc.target)[i] + 1
    /\ svc.total = svc.target

====
